---- MODULE Spec2Model ----
(***************************************************************************)
(* A model of mela-mcp: the meal ledger (src/mela_mcp/meal_log.py), the    *)
(* planning workflow and tools of src/mela_mcp/server.py and the adapters  *)
(* they call (calendar.py, database.py).                                   *)
(*                                                                         *)
(* Encodings.                                                              *)
(*  - A Python str on which the code works character by character (tags,   *)
(*    titles, recipe names) is a sequence of one-character strings.        *)
(*  - A value that may be None / SQL NULL is None == <<>> or Some(v).      *)
(*  - A date "YYYY-MM-DD" is its day number and a datetime.isoformat()     *)
(*    timestamp is its clock reading: both string formats are fixed width  *)
(*    with the most significant field first, so the string order SQLite    *)
(*    and Python use is the numeric order.                                 *)
(*  - The ledger is the sequence of rows of table meals in rowid order.    *)
(***************************************************************************)
EXTENDS Integers, Sequences, FiniteSets, TLC

VARIABLES
    ledger,   \* rows of table meals, in insertion (rowid) order
    seq,      \* sqlite_sequence entry of meals: the largest rowid ever used
    now,      \* the wall clock, in ticks
    created,  \* history: the ids returned by the creates so far, in order
    last      \* the last call: its name, arguments, result and exception

vars == <<ledger, seq, now, created, last>>

----------------------------------------------------------------------------
\* Bounds of the model.

MaxMeals == 2
MaxNow == 1
TicksPerDay == 1

----------------------------------------------------------------------------
\* Optional values and strings.

None == <<>>
Some(v) == <<v>>

RECURSIVE SeqMax(_)
SeqMax(s) ==
    IF s = <<>> THEN 0
    ELSE LET m == SeqMax(Tail(s)) IN IF Head(s) > m THEN Head(s) ELSE m

\* The characters the model's strings are built from, with their ASCII codes.
CharCode ==
    [c \in {" ", "%", ",", "A", "O", "S", "T", "_", "a", "b", "c", "o", "s", "t", "z"} |->
        CASE c = " " -> 32 [] c = "%" -> 37 [] c = "," -> 44 [] c = "A" -> 65
          [] c = "O" -> 79 [] c = "S" -> 83 [] c = "T" -> 84 [] c = "_" -> 95 [] c = "a" -> 97
          [] c = "b" -> 98 [] c = "c" -> 99 [] c = "o" -> 111 [] c = "s" -> 115
          [] c = "t" -> 116 [] c = "z" -> 122]

\* str.lower() on one character; SQLite's LIKE folds ASCII case the same way.
LowerChar(c) ==
    CASE c = "A" -> "a" [] c = "O" -> "o" [] c = "S" -> "s" [] c = "T" -> "t"
      [] OTHER -> c

\* str.lower()
Lower(s) == [i \in 1..Len(s) |-> LowerChar(s[i])]

\* s < t in byte order (SQLite's BINARY collation).
RECURSIVE StrLess(_, _)
StrLess(s, t) ==
    IF t = <<>> THEN FALSE
    ELSE IF s = <<>> THEN TRUE
    ELSE IF CharCode[Head(s)] # CharCode[Head(t)]
         THEN CharCode[Head(s)] < CharCode[Head(t)]
         ELSE StrLess(Tail(s), Tail(t))

\* str.split(sep): the pieces between the separators, empty pieces included.
RECURSIVE SplitFrom(_, _, _)
SplitFrom(s, sep, piece) ==
    IF s = <<>> THEN <<piece>>
    ELSE IF Head(s) = sep THEN <<piece>> \o SplitFrom(Tail(s), sep, <<>>)
    ELSE SplitFrom(Tail(s), sep, Append(piece, Head(s)))

Split(s, sep) == SplitFrom(s, sep, <<>>)

\* str.strip(): leading and trailing whitespace removed.
RECURSIVE LStrip(_)
LStrip(s) == IF s # <<>> /\ Head(s) = " " THEN LStrip(Tail(s)) ELSE s

RECURSIVE RStrip(_)
RStrip(s) ==
    IF s # <<>> /\ s[Len(s)] = " " THEN RStrip(SubSeq(s, 1, Len(s) - 1)) ELSE s

Strip(s) == RStrip(LStrip(s))

\* SQLite's  text LIKE pat : % matches any run of characters, _ any one
\* character, any other character itself without regard to ASCII case.
RECURSIVE Like(_, _)
Like(text, pat) ==
    IF pat = <<>> THEN text = <<>>
    ELSE IF Head(pat) = "%"
         THEN \E k \in 0..Len(text) : Like(SubSeq(text, k + 1, Len(text)), Tail(pat))
    ELSE /\ text # <<>>
         /\ Head(pat) = "_" \/ LowerChar(Head(pat)) = LowerChar(Head(text))
         /\ Like(Tail(text), Tail(pat))

\* column LIKE '%' || token || '%' on a nullable column: NULL never matches.
LikeContains(column, token) ==
    column # None /\ Like(column[1], <<"%">> \o token \o <<"%">>)

\* A stable ascending sort of rows by the integer keys key[1..Len(rows)].
SortByKey(rows, key) ==
    LET n == Len(rows)
        pos(i) == 1 + Cardinality({j \in 1..n :
                         key[j] < key[i] \/ (key[j] = key[i] /\ j < i)})
    IN  [p \in 1..n |-> rows[CHOOSE i \in 1..n : pos(i) = p]]

\* The wall clock's date, datetime.now().strftime("%Y-%m-%d").
Today(t) == t \div TicksPerDay

----------------------------------------------------------------------------
\* meal_log.py: the ledger store.

Columns ==
    {"id", "date", "title", "recipe_id", "tags", "status", "portions", "notes",
     "created_at", "updated_at"}

\* Columns declared NOT NULL hold a plain value, the others None or Some(v).
NullableColumns == {"recipe_id", "tags", "portions", "notes"}

Ids(db) == {db[i].id : i \in 1..Len(db)}

\* SELECT * FROM meals WHERE id = ? ... fetchone(): None or the row.
FetchById(db, meal_id) ==
    IF \E i \in 1..Len(db) : db[i].id = meal_id
    THEN Some(db[CHOOSE i \in 1..Len(db) : db[i].id = meal_id])
    ELSE None

\* Mutant of NextRowid: the rowid counter is not advanced.
NextRowidNoIncrement(db, s) == IF s = 0 THEN 1 ELSE s

\* INTEGER PRIMARY KEY AUTOINCREMENT: one more than the largest rowid the
\* table has ever held.
NextRowid(db, s) ==
    LET m == SeqMax([i \in 1..Len(db) |-> db[i].id])
    IN  (IF s > m THEN s ELSE m) + 1

\* log_meal(date, title, recipe_id, tags, status, portions, notes) at clock
\* reading t.
log_meal(db, s, t, date, title, recipe_id, tags, status, portions, notes) ==
    LET rowid == NextRowid(db, s)
        row == [id |-> rowid, date |-> date, title |-> title,
                recipe_id |-> recipe_id, tags |-> tags, status |-> status,
                portions |-> portions, notes |-> notes,
                created_at |-> t, updated_at |-> t]
    IN  [db |-> Append(db, row), seq |-> rowid, raised |-> "", ret |-> row]

\* Mutant of allowed: the timestamps are writable by the caller.
allowedWithTimestamps ==
    {"date", "title", "recipe_id", "tags", "status", "portions", "notes",
     "created_at", "updated_at"}

\* update_meal: the whitelist.
allowed == {"date", "title", "recipe_id", "tags", "status", "portions", "notes"}

\* {k: v for k, v in kwargs.items() if k in allowed and v is not None}
UpdateFields(kwargs) ==
    {k \in DOMAIN kwargs : k \in allowed /\ kwargs[k] # None}

\* The value UPDATE stores in column k for the argument Some(v).
Stored(k, arg) == IF k \in NullableColumns THEN arg ELSE arg[1]

\* Mutant of ApplyUpdate: the UPDATE has no WHERE clause.
ApplyUpdateAllRows(db, meal_id, kwargs, fields, t) ==
    [i \in 1..Len(db) |->
        [c \in Columns |->
            IF c \in fields THEN Stored(c, kwargs[c])
            ELSE IF c = "updated_at" THEN t
            ELSE db[i][c]]]

\* UPDATE meals SET <fields>, updated_at = t WHERE id = meal_id
ApplyUpdate(db, meal_id, kwargs, fields, t) ==
    [i \in 1..Len(db) |->
        IF db[i].id = meal_id
        THEN [c \in Columns |->
                 IF c \in fields THEN Stored(c, kwargs[c])
                 ELSE IF c = "updated_at" THEN t
                 ELSE db[i][c]]
        ELSE db[i]]

\* Mutant of update_meal: updated_at is refreshed even when no field applies.
update_meal_always_stamps(db, s, t, meal_id, kwargs) ==
    LET fields == UpdateFields(kwargs)
        db2 == ApplyUpdate(db, meal_id, kwargs, fields, t)
        row == FetchById(db2, meal_id)
    IN  IF row = None
        THEN [db |-> db2, seq |-> s, raised |-> "ValueError", ret |-> None]
        ELSE [db |-> db2, seq |-> s, raised |-> "", ret |-> row[1]]

\* Mutant of update_meal: the field-applying path does not check that the
\* row exists.
update_meal_unchecked(db, s, t, meal_id, kwargs) ==
    LET fields == UpdateFields(kwargs)
    IN  IF fields = {}
        THEN LET row == FetchById(db, meal_id)
             IN  IF row = None
                 THEN [db |-> db, seq |-> s, raised |-> "ValueError", ret |-> None]
                 ELSE [db |-> db, seq |-> s, raised |-> "", ret |-> row[1]]
        ELSE LET db2 == ApplyUpdate(db, meal_id, kwargs, fields, t)
                 row == FetchById(db2, meal_id)
             IN  [db |-> db2, seq |-> s, raised |-> "",
                  ret |-> IF row = None THEN None ELSE row[1]]

\* update_meal(meal_id, **kwargs) at clock reading t.
update_meal(db, s, t, meal_id, kwargs) ==
    LET fields == UpdateFields(kwargs)
    IN  IF fields = {}
        THEN LET row == FetchById(db, meal_id)
             IN  IF row = None
                 THEN [db |-> db, seq |-> s, raised |-> "ValueError", ret |-> None]
                 ELSE [db |-> db, seq |-> s, raised |-> "", ret |-> row[1]]
        ELSE LET db2 == ApplyUpdate(db, meal_id, kwargs, fields, t)
                 row == FetchById(db2, meal_id)
             IN  IF row = None
                 THEN [db |-> db2, seq |-> s, raised |-> "ValueError", ret |-> None]
                 ELSE [db |-> db2, seq |-> s, raised |-> "", ret |-> row[1]]

\* Python truthiness of an optional str argument: None and "" are false.
\* empty is the empty string in the argument's encoding ("" or <<>>).
Truthy(arg, empty) == arg # None /\ arg[1] # empty

\* The stripped pieces of a comma-separated string: [t.strip() for t in s.split(",")]
StrippedPieces(s) ==
    LET pieces == Split(s, ",") IN [k \in 1..Len(pieces) |-> Strip(pieces[k])]

\* get_meals(start_date, end_date, status, tags): the rows that pass every
\* condition built from a truthy argument, ORDER BY date DESC (rows of one
\* date are given in rowid order).  A date argument is None or Some(day).
get_meals(db, start_date, end_date, status, tags) ==
    LET pass(row) ==
            /\ start_date # None => row.date >= start_date[1]
            /\ end_date # None => row.date <= end_date[1]
            /\ Truthy(status, "") => row.status = status[1]
            /\ Truthy(tags, <<>>) =>
                  \A k \in 1..Len(StrippedPieces(tags[1])) :
                      LikeContains(row.tags, StrippedPieces(tags[1])[k])
        rows == SelectSeq(db, pass)
    IN  SortByKey(rows, [i \in 1..Len(rows) |-> 0 - rows[i].date])

RECURSIVE SeqSum(_)
SeqSum(s) == IF s = <<>> THEN 0 ELSE Head(s) + SeqSum(Tail(s))

\* The non-empty stripped tags of a row's tag string, in order.
RowTags(row) ==
    LET nonEmpty(tok) == tok # <<>> IN SelectSeq(StrippedPieces(row.tags[1]), nonEmpty)

\* get_tag_frequency(days) at clock reading t: freq[tag] is incremented for
\* every non-empty stripped piece of the tag string of every row with
\* tags IS NOT NULL AND date >= cutoff.
get_tag_frequency(db, t, days) ==
    LET cutoff == Today(t) - days
        inWindow(row) == row.tags # None /\ row.date >= cutoff
        rows == SelectSeq(db, inWindow)
        seen == UNION {{RowTags(rows[i])[k] : k \in 1..Len(RowTags(rows[i]))} :
                       i \in 1..Len(rows)}
    IN  [tag \in seen |->
            SeqSum([i \in 1..Len(rows) |->
                Cardinality({k \in 1..Len(RowTags(rows[i])) : RowTags(rows[i])[k] = tag})])]

\* The date bounds of get_unreconciled(days): cutoff from the clock reading
\* t1, today from the later reading t2.
UnreconciledBounds(t1, t2, days) ==
    [cutoff |-> Today(t1) - days, today |-> Today(t2)]

\* get_unreconciled(days), the clock read at t1 and then at t2: the rows with
\* status = 'planned' AND date >= cutoff AND date <= today ORDER BY date.
get_unreconciled(db, t1, t2, days) ==
    LET b == UnreconciledBounds(t1, t2, days)
        pass(row) == row.status = "planned" /\ row.date >= b.cutoff /\ row.date <= b.today
        rows == SelectSeq(db, pass)
    IN  SortByKey(rows, [i \in 1..Len(rows) |-> rows[i].date])

\* The date bounds of get_stale_meals(days, min_gap): window_start from the
\* clock reading t1, stale_cutoff from the later reading t2.
StaleBounds(t1, t2, days, min_gap) ==
    [window_start |-> Today(t1) - days, stale_cutoff |-> Today(t2) - min_gap]

\* Two rows fall in one group of GROUP BY COALESCE(recipe_id, title).
SameDish(a, b) ==
    /\ a.recipe_id = b.recipe_id
    /\ a.recipe_id = None => a.title = b.title

\* The order of the group keys: integers (recipe ids) before text (titles),
\* integers by value, text in byte order.
DishLess(a, b) ==
    IF a.recipe_id # None
    THEN b.recipe_id = None \/ a.recipe_id[1] < b.recipe_id[1]
    ELSE b.recipe_id = None /\ StrLess(a.title, b.title)

\* status IN ('cooked', 'planned')
StaleStatuses == {"cooked", "planned"}

\* get_stale_meals(days, min_gap), the clock read at t1 and then at t2.  Per
\* group: MAX(date), COUNT(*), and title and recipe_id of the first row that
\* holds the maximal date; groups with MAX(date) < stale_cutoff, ORDER BY
\* last_date (groups of one last_date in the order of their keys).
get_stale_meals(db, t1, t2, days, min_gap) ==
    LET b == StaleBounds(t1, t2, days, min_gap)
        pass(row) == row.date >= b.window_start /\ row.status \in StaleStatuses
        rows == SelectSeq(db, pass)
        n == Len(rows)
        members(i) == {j \in 1..n : SameDish(rows[j], rows[i])}
        lastDate(i) == CHOOSE d \in {rows[j].date : j \in members(i)} :
                           \A j \in members(i) : rows[j].date <= d
        bare(i) == rows[CHOOSE j \in members(i) :
                        /\ rows[j].date = lastDate(i)
                        /\ \A k \in members(i) : rows[k].date = lastDate(i) => j <= k]
        leaders == {i \in 1..n : \A j \in members(i) : i <= j}
        kept == {i \in leaders : lastDate(i) < b.stale_cutoff}
        rank(i) == Cardinality({j \in kept : DishLess(rows[j], rows[i])})
        byKey == [p \in 1..Cardinality(kept) |->
                     LET i == CHOOSE i \in kept : rank(i) = p - 1
                     IN  [title |-> bare(i).title, recipe_id |-> bare(i).recipe_id,
                          last_date |-> lastDate(i),
                          times_cooked |-> Cardinality(members(i))]]
    IN  SortByKey(byKey, [p \in 1..Len(byKey) |-> byKey[p].last_date])

----------------------------------------------------------------------------
\* database.py: the read-only recipe store.

\* The rows of ZRECIPEOBJECT the model's recipe store holds.
Curcuma ==
    << [id |-> 5, title |-> <<"s", "o">>, ingredients |-> <<"a">>],
       [id |-> 3, title |-> <<"S", "o">>, ingredients |-> <<"b">>],
       [id |-> 8, title |-> <<"T", "o">>, ingredients |-> <<"s", "o">>] >>

\* search_recipes(query): WHERE ZTITLE LIKE ? OR ZINGREDIENTS LIKE ?
\* ORDER BY ZTITLE, with get_connection raising when the file is missing.
search_recipes(melaExists, query) ==
    IF ~melaExists
    THEN [raised |-> "FileNotFoundError", ret |-> <<>>]
    ELSE LET hit(r) == \/ LikeContains(Some(r.title), query)
                       \/ LikeContains(Some(r.ingredients), query)
             rows == SelectSeq(Curcuma, hit)
             key == [i \in 1..Len(rows) |->
                        Cardinality({j \in 1..Len(rows) :
                            StrLess(rows[j].title, rows[i].title)})]
             sorted == SortByKey(rows, key)
         IN  [raised |-> "",
              ret |-> [i \in 1..Len(sorted) |->
                          [id |-> sorted[i].id, title |-> sorted[i].title]]]

----------------------------------------------------------------------------
\* calendar.py: the calendar adapter.

\* The parameters of calendar.schedule_meal.
calendar_schedule_meal_params == <<"calendar_name", "title", "date", "time">>

\* Python's argument binding: a call with npos positional arguments and the
\* given keyword arguments binds iff every keyword names a parameter that no
\* positional argument has filled (else TypeError).
CallBinds(params, npos, keywords) ==
    /\ npos <= Len(params)
    /\ \A k \in keywords : \E i \in (npos + 1)..Len(params) : params[i] = k

\* schedule_meal(calendar_name, title, date, time).  date and time are given
\* by the number of pieces date.split("-") and time.split(":") yield (and the
\* date's day); osascript is what the external run does: "ok" (exit status
\* 0), "nonzero" (run_applescript raises RuntimeError) or "missing"
\* (subprocess.run cannot start it).
calendar_schedule_meal(osascript, calendar_name, title, date, time) ==
    IF date.parts # 3 \/ time.parts # 2
    THEN [raised |-> "ValueError", ret |-> None]
    ELSE IF osascript = "missing"
    THEN [raised |-> "FileNotFoundError", ret |-> None]
    ELSE IF osascript = "nonzero"
    THEN [raised |-> "", ret |-> [success |-> FALSE, error |-> "RuntimeError"]]
    ELSE [raised |-> "",
          ret |-> [success |-> TRUE, title |-> title, date |-> date,
                   time |-> time, calendar |-> calendar_name]]

----------------------------------------------------------------------------
\* server.py: the tools.

CALENDAR_NAME == "Family"

\* The first search result whose title equals recipe_name without regard to
\* case: its id, or None.
ResolveRecipe(matches, recipe_name) ==
    LET exact == {i \in 1..Len(matches) : Lower(matches[i].title) = Lower(recipe_name)}
    IN  IF exact = {} THEN None
        ELSE Some(matches[CHOOSE i \in exact : \A j \in exact : i <= j].id)

\* The keyword arguments of the call of calendar.schedule_meal, after its
\* four positional arguments.
schedule_call_keywords == {"recipe_id"}

\* Mutant of server_schedule_meal: the planned record is written before the
\* calendar is asked.
server_schedule_meal_logs_first(db, s, t, env, recipe_name, date, time) ==
    LET w == log_meal(db, s, t, date.day, recipe_name, None, None, "planned", None, None)
    IN  [db |-> w.db, seq |-> w.seq, raised |-> "TypeError", ret |-> None]

\* schedule_meal(recipe_name, date, time) at clock reading t, with
\* env.mela (the recipe database file exists) and env.osascript.
server_schedule_meal(db, s, t, env, recipe_name, date, time) ==
    LET found == search_recipes(env.mela, recipe_name)
    IN  IF found.raised # ""
        THEN [db |-> db, seq |-> s, raised |-> found.raised, ret |-> None]
        ELSE
        LET recipe_id == ResolveRecipe(found.ret, recipe_name)
        IN  IF ~CallBinds(calendar_schedule_meal_params, 4, schedule_call_keywords)
            THEN [db |-> db, seq |-> s, raised |-> "TypeError", ret |-> None]
            ELSE
            LET result == calendar_schedule_meal(env.osascript, CALENDAR_NAME,
                                                 recipe_name, date, time)
            IN  IF result.raised # ""
                THEN [db |-> db, seq |-> s, raised |-> result.raised, ret |-> None]
                ELSE IF result.ret.success
                THEN LET w == log_meal(db, s, t, date.day, recipe_name, recipe_id,
                                       None, "planned", None, None)
                     IN  [db |-> w.db, seq |-> w.seq, raised |-> "", ret |-> result.ret]
                ELSE [db |-> db, seq |-> s, raised |-> "", ret |-> result.ret]

\* log_meal(title, date, tags, recipe_id, portions, notes): the tool.
\* With date None the clock is read for the date (t1) and then again by
\* meal_log.log_meal for the timestamps (t2); with a date only t2 is read.
server_log_meal(db, s, t1, t2, title, date, tags, recipe_id, portions, notes) ==
    LET d == IF date = None THEN Today(t1) ELSE date[1]
    IN  log_meal(db, s, t2, d, title, recipe_id, tags, "cooked", portions, notes)

\* update_meal_log(meal_id, status, notes, tags): the tool.
server_update_meal_log(db, s, t, meal_id, status, notes, tags) ==
    update_meal(db, s, t, meal_id, [status |-> status, notes |-> notes, tags |-> tags])

\* review_recent_meals(days): the tool.
server_review_recent_meals(db, t1, t2, days) == get_unreconciled(db, t1, t2, days)

\* min_gap = 30 in the call of get_stale_meals.
SuggestionMinGap == 30

\* The date bounds of one get_meal_suggestions(days_back): the clock is read
\* by get_tag_frequency (t1), twice by get_stale_meals (t2, t3) and for the
\* start date of the scan for ad-hoc meals (t4).
SuggestionBounds(t1, t2, t3, t4, days_back) ==
    [tag_cutoff   |-> Today(t1) - days_back,
     window_start |-> StaleBounds(t2, t3, days_back, SuggestionMinGap).window_start,
     stale_cutoff |-> StaleBounds(t2, t3, days_back, SuggestionMinGap).stale_cutoff,
     start_date   |-> Today(t4) - days_back]

\* Mutant of IsAdhocCooked: the status of the record is not looked at.
IsAdhocAnyStatus(m) == m.recipe_id = None

\* m.get("recipe_id") is None and m.get("status") == "cooked"
IsAdhocCooked(m) == m.recipe_id = None /\ m.status = "cooked"

\* if count >= 3
FrequentThreshold == 3

\* adhoc_counts.items(): one (title, count) per title of the ad-hoc cooked
\* records of all_meals, in the order of the titles' first occurrence.
AdhocCounts(all_meals) ==
    LET adhoc == SelectSeq(all_meals, IsAdhocCooked)
        n == Len(adhoc)
        firsts == {i \in 1..n : \A j \in 1..(i - 1) : adhoc[j].title # adhoc[i].title}
        nth(p) == CHOOSE i \in firsts : Cardinality({j \in firsts : j < i}) = p - 1
    IN  [p \in 1..Cardinality(firsts) |->
            [title |-> adhoc[nth(p)].title,
             count |-> Cardinality({j \in 1..n : adhoc[j].title = adhoc[nth(p)].title})]]

\* sorted(adhoc_counts.items(), key=lambda x: -x[1]) filtered by the threshold.
FrequentAdhoc(all_meals) ==
    LET items == AdhocCounts(all_meals)
        sorted == SortByKey(items, [p \in 1..Len(items) |-> 0 - items[p].count])
        frequent(item) == item.count >= FrequentThreshold
    IN  SelectSeq(sorted, frequent)

RECURSIVE FnSum(_)
FnSum(f) ==
    IF DOMAIN f = {} THEN 0
    ELSE LET k == CHOOSE k \in DOMAIN f : TRUE
         IN  f[k] + FnSum([x \in DOMAIN f \ {k} |-> f[x]])

\* The tags with c > avg * 1.5, avg = sum / len: 2 * c * len > 3 * sum.
OverTags(tag_freq) ==
    LET over == {t \in DOMAIN tag_freq :
                    2 * tag_freq[t] * Cardinality(DOMAIN tag_freq) > 3 * FnSum(tag_freq)}
    IN  [t \in over |-> tag_freq[t]]

\* The tags with c < avg * 0.5, avg = sum / len: 2 * c * len < sum.
UnderTags(tag_freq) ==
    LET under == {t \in DOMAIN tag_freq :
                     2 * tag_freq[t] * Cardinality(DOMAIN tag_freq) < FnSum(tag_freq)}
    IN  [t \in under |-> tag_freq[t]]

\* get_meal_suggestions(days_back): the tool, the clock read at t1 .. t4.
server_get_meal_suggestions(db, t1, t2, t3, t4, days_back) ==
    LET tag_freq == get_tag_frequency(db, t1, days_back)
        stale == get_stale_meals(db, t2, t3, days_back, SuggestionMinGap)
        all_meals == get_meals(db, Some(SuggestionBounds(t1, t2, t3, t4, days_back).start_date),
                               None, None, None)
    IN  [novelty_candidates |-> stale,
         tag_frequency |-> tag_freq,
         over_represented_tags |-> OverTags(tag_freq),
         under_represented_tags |-> UnderTags(tag_freq),
         frequent_adhoc_meals |-> FrequentAdhoc(all_meals)]

----------------------------------------------------------------------------
\* The state machine.

NoCall == [op |-> "none", args |-> <<>>, raised |-> "", ret |-> None]

\* init_db(): CREATE TABLE IF NOT EXISTS meals on a fresh store.
Init ==
    /\ ledger = <<>>
    /\ seq = 0
    /\ now = 0
    /\ created = <<>>
    /\ last = NoCall

\* The wall clock between calls.  datetime.now() is naive local time: it
\* advances, and it reads earlier than before after a daylight-saving
\* fall-back or an adjustment of the system clock.
Tick ==
    /\ \E t \in (0..MaxNow) \ {now} : now' = t
    /\ last' = NoCall
    /\ UNCHANGED <<ledger, seq, created>>

\* The successive readings of the clock within one call: n readings, each
\* whatever datetime.now() returns at that moment, later or earlier than the
\* reading before.
ClockReadings(n) == [1..n -> 0..MaxNow]

\* A call of meal_log.log_meal.
LogMeal(date, title, recipe_id, tags, status, portions, notes) ==
    /\ Len(ledger) < MaxMeals
    /\ LET r == log_meal(ledger, seq, now, date, title, recipe_id, tags, status,
                         portions, notes)
       IN  /\ ledger' = r.db
           /\ seq' = r.seq
           /\ created' = Append(created, r.ret.id)
           /\ last' = [op |-> "log_meal",
                       args |-> <<date, title, recipe_id, tags, status, portions, notes>>,
                       raised |-> r.raised, ret |-> r.ret]
    /\ UNCHANGED now

\* A call of meal_log.update_meal.
UpdateMeal(meal_id, kwargs) ==
    /\ LET r == update_meal(ledger, seq, now, meal_id, kwargs)
       IN  /\ ledger' = r.db
           /\ seq' = r.seq
           /\ last' = [op |-> "update_meal", args |-> <<meal_id, kwargs>>,
                       raised |-> r.raised, ret |-> r.ret]
    /\ UNCHANGED <<now, created>>

\* The ids of the rows db2 holds beyond those of db, in order.
NewIds(db, db2) == [i \in 1..(Len(db2) - Len(db)) |-> db2[Len(db) + i].id]

\* A call of the tool schedule_meal, in environment env.
ToolScheduleMeal(env, recipe_name, date, time) ==
    /\ Len(ledger) < MaxMeals
    /\ LET r == server_schedule_meal(ledger, seq, now, env, recipe_name, date, time)
       IN  /\ ledger' = r.db
           /\ seq' = r.seq
           /\ created' = created \o NewIds(ledger, r.db)
           /\ last' = [op |-> "schedule_meal", args |-> <<recipe_name, date, time>>,
                       env |-> env, raised |-> r.raised, ret |-> r.ret]
    /\ UNCHANGED now

\* A call of the tool log_meal.
ToolLogMeal(title, date, tags, recipe_id, portions, notes) ==
    /\ Len(ledger) < MaxMeals
    /\ \E c \in ClockReadings(IF date = None THEN 2 ELSE 1) :
          LET r == server_log_meal(ledger, seq, c[1], c[Len(c)], title, date, tags,
                                   recipe_id, portions, notes)
          IN  /\ ledger' = r.db
              /\ seq' = r.seq
              /\ now' = c[Len(c)]
              /\ created' = created \o NewIds(ledger, r.db)
              /\ last' = [op |-> "tool_log_meal",
                          args |-> <<title, date, tags, recipe_id, portions, notes>>,
                          clock |-> c, raised |-> r.raised, ret |-> r.ret]

\* A call of the tool update_meal_log.
ToolUpdateMealLog(meal_id, status, notes, tags) ==
    /\ LET r == server_update_meal_log(ledger, seq, now, meal_id, status, notes, tags)
       IN  /\ ledger' = r.db
           /\ seq' = r.seq
           /\ last' = [op |-> "update_meal_log", args |-> <<meal_id, status, notes, tags>>,
                       raised |-> r.raised, ret |-> r.ret]
    /\ UNCHANGED <<now, created>>

\* A call of meal_log.get_meals.
GetMeals(start_date, end_date, status, tags) ==
    /\ last' = [op |-> "get_meals", args |-> <<start_date, end_date, status, tags>>,
                raised |-> "", ret |-> get_meals(ledger, start_date, end_date, status, tags)]
    /\ UNCHANGED <<ledger, seq, now, created>>

\* A call of meal_log.get_tag_frequency.
GetTagFrequency(days) ==
    /\ last' = [op |-> "get_tag_frequency", args |-> <<days>>,
                raised |-> "", ret |-> get_tag_frequency(ledger, now, days)]
    /\ UNCHANGED <<ledger, seq, now, created>>

\* A call of the tool review_recent_meals (meal_log.get_unreconciled).
GetUnreconciled(days) ==
    \E r \in ClockReadings(2) :
        /\ now' = r[2]
        /\ last' = [op |-> "get_unreconciled", args |-> <<days>>, clock |-> r,
                    bounds |-> UnreconciledBounds(r[1], r[2], days),
                    raised |-> "",
                    ret |-> server_review_recent_meals(ledger, r[1], r[2], days)]
        /\ UNCHANGED <<ledger, seq, created>>

\* A call of meal_log.get_stale_meals.
GetStaleMeals(days, min_gap) ==
    \E r \in ClockReadings(2) :
        /\ now' = r[2]
        /\ last' = [op |-> "get_stale_meals", args |-> <<days, min_gap>>, clock |-> r,
                    bounds |-> StaleBounds(r[1], r[2], days, min_gap),
                    raised |-> "",
                    ret |-> get_stale_meals(ledger, r[1], r[2], days, min_gap)]
        /\ UNCHANGED <<ledger, seq, created>>

\* A call of the tool get_meal_suggestions.
GetMealSuggestions(days_back) ==
    \E r \in ClockReadings(4) :
        /\ now' = r[4]
        /\ last' = [op |-> "get_meal_suggestions", args |-> <<days_back>>, clock |-> r,
                    bounds |-> SuggestionBounds(r[1], r[2], r[3], r[4], days_back),
                    raised |-> "",
                    ret |-> server_get_meal_suggestions(ledger, r[1], r[2], r[3], r[4],
                                                        days_back)]
        /\ UNCHANGED <<ledger, seq, created>>

----------------------------------------------------------------------------
\* Inputs of the store specification.

SoupT == <<"S", "o">>
ToastT == <<"T", "o">>
TagA == <<"a">>
TagAB == <<"a", ",", "b">>

StoreKwargs ==
    { [x \in {} |-> None],
      [status |-> None, notes |-> None, tags |-> None],
      [id |-> Some(9), created_at |-> Some(0), updated_at |-> Some(0)],
      [status |-> Some("skipped"), notes |-> None, tags |-> None],
      [status |-> Some("skipped"), id |-> Some(9), created_at |-> Some(0),
       updated_at |-> Some(0)],
      [date |-> Some(1), title |-> Some(ToastT), recipe_id |-> Some(7),
       tags |-> Some(TagAB), portions |-> Some(4), notes |-> Some("n")] }

\* The ids of the update calls: the first record, the second, and an id that
\* no record has.
UpdateIds == {1, 2, MaxMeals + 1}

NextStore ==
    \/ Tick
    \/ LogMeal(0, SoupT, None, Some(TagA), "cooked", None, None)
    \/ \E meal_id \in UpdateIds, kwargs \in StoreKwargs :
          UpdateMeal(meal_id, kwargs)

SpecStore == Init /\ [][NextStore]_vars

----------------------------------------------------------------------------
\* The planning workflow: the tools of server.py that write the ledger.

WellFormedDate == [parts |-> 3, day |-> 1]
WellFormedTime == [parts |-> 2]

\* The recipe database file is missing, or present with each outcome of the
\* external calendar run.
Environments ==
    {[mela |-> FALSE, osascript |-> "ok"]} \cup
    [mela : {TRUE}, osascript : {"ok", "nonzero", "missing"}]

\* (recipe_name, date, time) of the schedule_meal calls.
ScheduleArgs ==
    { <<<<"S", "O">>, WellFormedDate, WellFormedTime>>,
      <<<<"z">>, WellFormedDate, WellFormedTime>>,
      <<<<"S", "O">>, [parts |-> 1, day |-> 0], WellFormedTime>>,
      <<<<"T", "o">>, WellFormedDate, [parts |-> 1]>> }

\* The schedule_meal calls: every environment with usable arguments, and
\* every argument tuple in the environment in which nothing fails.
ScheduleCalls ==
    {c \in Environments \X ScheduleArgs :
        \/ c[1] = [mela |-> TRUE, osascript |-> "ok"]
        \/ c[2] = <<<<"S", "O">>, WellFormedDate, WellFormedTime>>}

NextWorkflow ==
    \/ Tick
    \/ \E c \in ScheduleCalls : ToolScheduleMeal(c[1], c[2][1], c[2][2], c[2][3])
    \/ \E date \in {None, Some(0)} :
          ToolLogMeal(SoupT, date, None, None, None, None)
    \/ \E meal_id \in {1, MaxMeals + 1}, status \in {None, Some("eaten")} :
          ToolUpdateMealLog(meal_id, status, None, None)

SpecWorkflow == Init /\ [][NextWorkflow]_vars

----------------------------------------------------------------------------
\* Claims about the planning workflow, checked under SpecWorkflow.

IsScheduleStep == last'.op = "schedule_meal"

\* The outcome of a schedule_meal call reports success.
ReportsSuccess(call) == call.raised = "" /\ call.ret.success

\* C1: a schedule_meal call in which the calendar call fails (the external
\* run does not end with status 0, or the call does not come back reporting
\* success) leaves the ledger exactly as it was and does not report success
\* to the caller.
C1_NoWriteOnCalendarFailure ==
    [][(IsScheduleStep /\ (last'.env.osascript # "ok" \/ ~ReportsSuccess(last')))
        => /\ ledger' = ledger
           /\ seq' = seq
           /\ ~ReportsSuccess(last')]_vars

\* C1 witness: on a non-empty ledger, a schedule_meal call with usable
\* arguments and a reachable recipe store whose calendar run exits non-zero.
C1_Witness ==
    /\ last.op = "schedule_meal"
    /\ last.env = [mela |-> TRUE, osascript |-> "nonzero"]
    /\ last.args[2].parts = 3
    /\ last.args[3].parts = 2
    /\ ledger # <<>>

\* C2: when the calendar succeeds (recipe store reachable, usable date and
\* time, external run exits 0), schedule_meal appends exactly one record with
\* status "planned", the given title and date and the recipe_id of the first
\* search result whose title equals recipe_name without regard to case (None
\* when there is none), and returns the success outcome.
C2_ScheduleAppendsPlanned ==
    [][(/\ IsScheduleStep
        /\ last'.env = [mela |-> TRUE, osascript |-> "ok"]
        /\ last'.args[2].parts = 3
        /\ last'.args[3].parts = 2)
        => /\ ReportsSuccess(last')
           /\ Len(ledger') = Len(ledger) + 1
           /\ SubSeq(ledger', 1, Len(ledger)) = ledger
           /\ LET row == ledger'[Len(ledger')]
              IN  /\ row.status = "planned"
                  /\ row.title = last'.args[1]
                  /\ row.date = last'.args[2].day
                  /\ row.recipe_id =
                        ResolveRecipe(search_recipes(TRUE, last'.args[1]).ret,
                                      last'.args[1])]_vars

\* C3: every record of the ledger has a status among planned, cooked and
\* skipped, whatever the callers of the tools pass.
C3_StatusInEnum ==
    \A i \in 1..Len(ledger) : ledger[i].status \in {"planned", "cooked", "skipped"}

----------------------------------------------------------------------------
\* Claims about the ledger store, checked under SpecStore.

\* The whitelist and the applicable fields as the claims state them.
Whitelisted == {"date", "title", "recipe_id", "tags", "status", "portions", "notes"}
Applicable(kwargs) == {k \in DOMAIN kwargs \cap Whitelisted : kwargs[k] # None}

\* The step is a call update_meal(meal_id, kwargs), recorded in last'.
IsUpdateStep == last'.op = "update_meal"
UpdId == last'.args[1]
UpdKwargs == last'.args[2]

RowOf(db, meal_id) == db[CHOOSE i \in 1..Len(db) : db[i].id = meal_id]

RECURSIVE StrictlyIncreasing(_)
StrictlyIncreasing(s) ==
    Len(s) < 2 \/ (s[1] < s[2] /\ StrictlyIncreasing(Tail(s)))

\* C4: in every reachable state no two ledger records share an id, and the
\* ids returned by the creates are strictly increasing in the order of the
\* creates, whatever updates are interleaved.
C4_IdsUniqueIncreasing ==
    /\ \A i, j \in 1..Len(ledger) : i # j => ledger[i].id # ledger[j].id
    /\ StrictlyIncreasing(created)

\* C4 witness: two creates with an update applied to the first in between.
C4_Witness ==
    /\ Len(created) = 2
    /\ Len(ledger) = 2
    /\ ledger[1].updated_at > ledger[1].created_at
    /\ ledger[2].created_at > ledger[1].created_at

\* C5: an update of an existing id whose input has no applicable field (every
\* whitelisted key absent or None, other keys ignored) returns the current
\* record and leaves the whole ledger, updated_at included, unchanged.
C5_NoOpUpdateFrame ==
    [][(IsUpdateStep /\ Applicable(UpdKwargs) = {} /\ UpdId \in Ids(ledger))
        => /\ ledger' = ledger
           /\ last'.raised = ""
           /\ last'.ret = RowOf(ledger, UpdId)]_vars

\* C5 witness: a no-op update, later than the record's last change, whose
\* input carried only non-whitelisted keys.
C5_Witness ==
    /\ last.op = "update_meal"
    /\ last.raised = ""
    /\ DOMAIN last.args[2] # {}
    /\ DOMAIN last.args[2] \cap Whitelisted = {}
    /\ last.ret.updated_at < now

\* C6: an update of an id that is not in the ledger raises the not-found
\* error (ValueError in the code) on the no-op path and on the field-applying
\* path, and leaves the ledger unchanged.
C6_UpdateNotFound ==
    [][(IsUpdateStep /\ UpdId \notin Ids(ledger))
        => /\ last'.raised = "ValueError"
           /\ ledger' = ledger]_vars

\* C6 witness: a field-applying update of a missing id on a non-empty ledger.
C6_Witness ==
    /\ last.op = "update_meal"
    /\ last.args[1] \notin Ids(ledger)
    /\ Applicable(last.args[2]) # {}
    /\ ledger # <<>>

\* C7: an update that applies a field sets updated_at to a value that is at
\* least the previous updated_at, and keeps created_at; a create sets both
\* to the store's clock reading; so updated_at >= created_at in every record
\* of every reachable state, whatever timestamps the caller passes.
C7_Timestamps ==
    [][/\ (IsUpdateStep /\ Applicable(UpdKwargs) # {} /\ UpdId \in Ids(ledger))
          => /\ RowOf(ledger', UpdId).updated_at >= RowOf(ledger, UpdId).updated_at
             /\ RowOf(ledger', UpdId).updated_at = now
             /\ RowOf(ledger', UpdId).created_at = RowOf(ledger, UpdId).created_at
       /\ last'.op = "log_meal"
          => /\ last'.ret.created_at = now
             /\ last'.ret.updated_at = now
       /\ \A i \in 1..Len(ledger') : ledger'[i].updated_at >= ledger'[i].created_at]_vars

\* The part of C7 that does not depend on the clock: both timestamps are the
\* store's clock readings, created_at is kept by every update, and timestamps
\* in the caller's input are not taken.
C7_StoreAssignsTimestamps ==
    [][/\ (IsUpdateStep /\ Applicable(UpdKwargs) # {} /\ UpdId \in Ids(ledger))
          => /\ RowOf(ledger', UpdId).updated_at = now
             /\ RowOf(ledger', UpdId).created_at = RowOf(ledger, UpdId).created_at
       /\ last'.op = "log_meal"
          => /\ last'.ret.created_at = now
             /\ last'.ret.updated_at = now]_vars

\* A field-applying update whose input also carried created_at and
\* updated_at, on a record created earlier.
C7_Witness ==
    /\ last.op = "update_meal"
    /\ last.raised = ""
    /\ Applicable(last.args[2]) # {}
    /\ {"created_at", "updated_at"} \subseteq DOMAIN last.args[2]
    /\ last.ret.updated_at > last.ret.created_at

\* A field-applying update made after the clock stepped back: the record's
\* updated_at is earlier than its created_at.
C7_StepBackReached ==
    /\ last.op = "update_meal"
    /\ last.raised = ""
    /\ Applicable(last.args[2]) # {}
    /\ last.ret.updated_at < last.ret.created_at

\* C8: a field-applying update of an existing id sets the present, non-null
\* whitelisted fields to the given values and refreshes updated_at; the
\* record's other columns (id and created_at among them), every other record
\* and the number of records stay as they were.
C8_UpdateFrame ==
    [][(IsUpdateStep /\ Applicable(UpdKwargs) # {} /\ UpdId \in Ids(ledger))
        => /\ Len(ledger') = Len(ledger)
           /\ \A i \in 1..Len(ledger) :
                IF ledger[i].id # UpdId
                THEN ledger'[i] = ledger[i]
                ELSE \A c \in Columns :
                        IF c \in Applicable(UpdKwargs)
                        THEN ledger'[i][c] = Stored(c, UpdKwargs[c])
                        ELSE c # "updated_at" => ledger'[i][c] = ledger[i][c]]_vars

\* C8 witness: an update of one of two records that applied status only,
\* with an id key in its input, after an update that had set the other fields.
C8_Witness ==
    /\ last.op = "update_meal"
    /\ last.raised = ""
    /\ Len(ledger) = 2
    /\ Applicable(last.args[2]) = {"status"}
    /\ "id" \in DOMAIN last.args[2]
    /\ last.ret.title = ToastT
    /\ last.ret.status = "skipped"

----------------------------------------------------------------------------
\* The query layer: reads of a ledger filled through log_meal.

\* (date, tags, status) of the meals logged.
QueryMeals ==
    { <<0, Some(<<"a", ",", "b">>), "cooked">>,
      <<0, Some(<<"b", ",", "c">>), "planned">>,
      <<0 - 1, None, "planned">>,
      <<1, Some(<<" ", "a", " ", ",", ",", "A">>), "skipped">>,
      <<0 - 1, Some(<<"a", ",", "a">>), "cooked">> }

QueryStatuses == {None, Some(""), Some("planned")}
QueryTags ==
    {None, Some(<<>>), Some(<<"a">>), Some(<<" ", "a", " ", ",", "b">>),
     Some(<<"A">>), Some(<<"a", "_", "b">>)}
MaxDays == 1

NextQuery ==
    \/ Tick
    \/ \E m \in QueryMeals : LogMeal(m[1], SoupT, None, m[2], m[3], None, None)
    \/ \E start_date \in {None, Some(0)}, end_date \in {None, Some(0)},
          status \in QueryStatuses, tags \in QueryTags :
          GetMeals(start_date, end_date, status, tags)
    \/ \E days \in 0..MaxDays : GetTagFrequency(days)

SpecQuery == Init /\ [][NextQuery]_vars

----------------------------------------------------------------------------
\* Claims about the query layer, checked under SpecQuery.

\* tok occurs in text as a run of consecutive characters.
IsSubstring(tok, text) ==
    \E k \in 0..(Len(text) - Len(tok)) : SubSeq(text, k + 1, k + Len(tok)) = tok

\* The filters of a get_meals call as the claim states them.
SatisfiesFilters(row, start_date, end_date, status, tags) ==
    /\ start_date # None => row.date >= start_date[1]
    /\ end_date # None => row.date <= end_date[1]
    /\ Truthy(status, "") => row.status = status[1]
    /\ Truthy(tags, <<>>) =>
          /\ row.tags # None
          /\ \A k \in 1..Len(Split(tags[1], ",")) :
                IsSubstring(Strip(Split(tags[1], ",")[k]), row.tags[1])

\* C9: get_meals returns exactly the ledger records that satisfy every
\* supplied filter: start_date <= date <= end_date, status equal to the
\* given status, every trimmed comma-separated token of tags a substring of
\* the stored tag string.
C9_FindExact ==
    last.op = "get_meals" =>
        {last.ret[i] : i \in 1..Len(last.ret)} =
        {ledger[i] : i \in {j \in 1..Len(ledger) :
            SatisfiesFilters(ledger[j], last.args[1], last.args[2],
                             last.args[3], last.args[4])}}

\* The distinct non-empty trimmed tags a record carries.
TagSet(row) ==
    IF row.tags = None THEN {}
    ELSE {Strip(Split(row.tags[1], ",")[k]) : k \in 1..Len(Split(row.tags[1], ","))}
         \ {<<>>}

\* C10: get_tag_frequency(days) maps each tag carried by some record with
\* non-null tags and date >= today - days to the number of such records
\* that carry it, and holds no other tag.
C10_TagFrequencyCountsRecords ==
    last.op = "get_tag_frequency" =>
        LET inWindow == {i \in 1..Len(ledger) :
                            /\ ledger[i].tags # None
                            /\ ledger[i].date >= Today(now) - last.args[1]}
            carried == UNION {TagSet(ledger[i]) : i \in inWindow}
        IN  last.ret = [tag \in carried |->
                            Cardinality({i \in inWindow : tag \in TagSet(ledger[i])})]

----------------------------------------------------------------------------
\* Inputs of the analytics specification: a ledger of planned, cooked and
\* skipped meals around today, read by the three analytic operations while
\* the clock may advance.

AnalyticsMeals ==
    {<<0 - 1, SoupT, None, Some(TagA), "cooked">>,
     <<0, SoupT, None, None, "planned">>,
     <<0 - 1, ToastT, None, None, "cooked">>,
     <<0 - 35, ToastT, Some(7), Some(TagAB), "cooked">>,
     <<0, SoupT, Some(7), None, "planned">>,
     <<0, ToastT, None, None, "skipped">>,
     <<0 - 2, SoupT, None, None, "planned">>,
     <<1, SoupT, None, None, "planned">>}

AnalyticsDays == {MaxDays, 40}

AnalyticsGaps == {0, MaxDays}

NextAnalytics ==
    \/ Tick
    \/ \E m \in AnalyticsMeals : LogMeal(m[1], m[2], m[3], m[4], m[5], None, None)
    \/ \E days \in AnalyticsDays : GetUnreconciled(days)
    \/ \E days \in AnalyticsDays, min_gap \in AnalyticsGaps : GetStaleMeals(days, min_gap)
    \/ \E days_back \in AnalyticsDays : GetMealSuggestions(days_back)

SpecAnalytics == Init /\ [][NextAnalytics]_vars

----------------------------------------------------------------------------
\* C11: stale_meals.

\* The rows of db that count for stale_meals when the day is today.
StaleWindow(db, today, days) ==
    {i \in 1..Len(db) : db[i].date >= today - days /\ db[i].status \in {"cooked", "planned"}}

\* The rows of the window that share the identity key of x.
StaleGroup(db, today, days, x) ==
    {i \in StaleWindow(db, today, days) :
        /\ db[i].recipe_id = x.recipe_id
        /\ x.recipe_id = None => db[i].title = x.title}

\* result is what stale_meals(days, min_gap) is said to return on the day today.
StaleAsClaimed(db, today, days, min_gap, result) ==
    /\ \A p \in 1..Len(result) :
          LET g == StaleGroup(db, today, days, result[p])
          IN  /\ g # {}
              /\ \E i \in g : db[i].date = result[p].last_date
              /\ \A i \in g : db[i].date <= result[p].last_date
              /\ result[p].times_cooked = Cardinality(g)
              /\ result[p].last_date < today - min_gap
    /\ \A p, q \in 1..Len(result) :
          (p # q) => StaleGroup(db, today, days, result[p]) # StaleGroup(db, today, days, result[q])
    /\ \A i \in StaleWindow(db, today, days) :
          (\A j \in StaleGroup(db, today, days, db[i]) : db[j].date < today - min_gap)
             => \E p \in 1..Len(result) : i \in StaleGroup(db, today, days, result[p])
    /\ \A p \in 1..(Len(result) - 1) : result[p].last_date <= result[p + 1].last_date

\* C11: the result of stale_meals(days, min_gap) is, for the day the call
\* began on or the day it ended on, one entry per identity key among the
\* cooked and planned records with date >= today - days, with the group's
\* maximal date and size, for exactly the groups whose maximal date is
\* before today - min_gap, by last_date ascending.
C11_StaleMeals ==
    last.op = "get_stale_meals" =>
        \E r \in {last.clock[1], last.clock[2]} :
            StaleAsClaimed(ledger, Today(r), last.args[1], last.args[2], last.ret)

\* The same, for the calls during which the day did not change.
C11_StaleMealsWithinOneDay ==
    (last.op = "get_stale_meals" /\ Today(last.clock[1]) = Today(last.clock[2])) =>
        StaleAsClaimed(ledger, Today(last.clock[1]), last.args[1], last.args[2], last.ret)

\* A call within one day returns a dish recorded twice in the window.
C11_WithinOneDayReached ==
    /\ last.op = "get_stale_meals"
    /\ Today(last.clock[1]) = Today(last.clock[2])
    /\ \E p \in 1..Len(last.ret) : last.ret[p].times_cooked = 2

----------------------------------------------------------------------------
\* Inputs of the suggestion specification: ledgers that hold up to
\* MaxPerTitle ad-hoc cooked records of each of two titles, among records
\* that are planned, skipped or linked to a recipe.

MaxPerTitle == 4

\* n copies of the meal m.
Repeat(m, n) == [i \in 1..n |-> m]

\* The ledger after log_meal has been called for each of meals in turn.
RECURSIVE LogAll(_, _, _, _)
LogAll(db, s, t, meals) ==
    IF meals = <<>> THEN [db |-> db, seq |-> s]
    ELSE LET m == Head(meals)
             r == log_meal(db, s, t, m[1], m[2], m[3], m[4], m[5], None, None)
         IN  LogAll(r.db, r.seq, t, Tail(meals))

OtherMeals ==
    {<<0, SoupT, None, Some(TagAB), "planned">>,
     <<0, SoupT, Some(7), Some(TagA), "cooked">>,
     <<0, ToastT, None, None, "skipped">>}

\* The members of a set of meals, one after the other.
RECURSIVE SeqOfSet(_)
SeqOfSet(S) ==
    IF S = {} THEN <<>>
    ELSE LET m == CHOOSE m \in S : TRUE IN <<m>> \o SeqOfSet(S \ {m})

InitSuggest ==
    \E a, b \in 0..MaxPerTitle, others \in SUBSET OtherMeals, soupLater \in BOOLEAN :
        LET soupDay == IF soupLater THEN 0 ELSE 0 - 1
            toastDay == IF soupLater THEN 0 - 1 ELSE 0
            meals == Repeat(<<soupDay, SoupT, None, None, "cooked">>, a)
                     \o SeqOfSet(others)
                     \o Repeat(<<toastDay, ToastT, None, None, "cooked">>, b)
            r == LogAll(<<>>, 0, 0, meals)
        IN  /\ ledger = r.db
            /\ seq = r.seq
            /\ now = 0
            /\ created = [i \in 1..Len(r.db) |-> r.db[i].id]
            /\ last = NoCall

\* The payload is a function of the ledger and of the clock readings of the
\* call, and the call changes neither the ledger nor what a later call may
\* read: one call is explored from each ledger.
NextSuggest ==
    \E days_back \in AnalyticsDays : last = NoCall /\ GetMealSuggestions(days_back)

SpecSuggest == InitSuggest /\ [][NextSuggest]_vars

----------------------------------------------------------------------------
\* C12: frequent_adhoc_meals.

\* The number of records of db titled title with date >= start, status
\* "cooked" and no recipe.
AdhocRecords(db, start, title) ==
    Cardinality({i \in 1..Len(db) :
        /\ db[i].title = title
        /\ db[i].date >= start
        /\ db[i].status = "cooked"
        /\ db[i].recipe_id = None})

\* C12: frequent_adhoc_meals of a suggestion payload holds exactly the titles
\* with at least 3 cooked records without recipe dated from today - days_back
\* on, each once and with that number of records, by count descending; today
\* is the day of the clock reading that dates the scan.
C12_FrequentAdhoc ==
    last.op = "get_meal_suggestions" =>
        LET start == Today(last.clock[4]) - last.args[1]
            F == last.ret.frequent_adhoc_meals
        IN  /\ {F[p].title : p \in 1..Len(F)} =
                  {ledger[i].title : i \in {j \in 1..Len(ledger) :
                                        AdhocRecords(ledger, start, ledger[j].title) >= 3}}
            /\ \A p \in 1..Len(F) : F[p].count = AdhocRecords(ledger, start, F[p].title)
            /\ \A p, q \in 1..Len(F) : (p # q) => F[p].title # F[q].title
            /\ \A p \in 1..(Len(F) - 1) : F[p].count >= F[p + 1].count

\* A payload lists one title with 4 records before another with 3, from a
\* ledger that also holds a planned, a skipped and a linked record.
C12_Witness ==
    /\ last.op = "get_meal_suggestions"
    /\ LET F == last.ret.frequent_adhoc_meals
       IN  /\ Len(F) = 2
           /\ F[1].count = 4
           /\ F[2].count = 3
           /\ \E i \in 1..Len(ledger) : ledger[i].recipe_id # None
           /\ \E i \in 1..Len(ledger) : ledger[i].status = "skipped"
           /\ \E i \in 1..Len(ledger) : ledger[i].status = "planned"

\* A title with 2 ad-hoc cooked records in the window, a planned one and one
\* linked to a recipe is left out of a payload that lists the other title.
C12_BelowThresholdReached ==
    /\ last.op = "get_meal_suggestions"
    /\ Len(last.ret.frequent_adhoc_meals) = 1
    /\ last.ret.frequent_adhoc_meals[1].title = ToastT
    /\ AdhocRecords(ledger, Today(last.clock[4]) - last.args[1], SoupT) = 2
    /\ \E i \in 1..Len(ledger) : ledger[i].title = SoupT /\ ledger[i].status = "planned"
    /\ \E i \in 1..Len(ledger) : ledger[i].title = SoupT /\ ledger[i].recipe_id # None

----------------------------------------------------------------------------
\* C13: collaborator failures of schedule.

\* The call recorded in call met a collaborator failure: the recipe store is
\* unreachable, the external command ends with a non-zero status, or the
\* date or time handed to the adapter is unusable.
CollaboratorFails(call) ==
    \/ ~call.env.mela
    \/ call.env.osascript = "nonzero"
    \/ call.args[2].parts # 3
    \/ call.args[3].parts # 2

\* C13: a schedule call that meets a collaborator failure does not unwind
\* with an exception: it returns an outcome with success false and an error
\* message.
C13_FailuresAreOutcomes ==
    (last.op = "schedule_meal" /\ CollaboratorFails(last)) =>
        /\ last.raised = ""
        /\ ~last.ret.success
        /\ "error" \in DOMAIN last.ret

----------------------------------------------------------------------------
\* C14: one clock reading per analytic operation.

\* The days on which the clock was read during the call recorded in call.
DaysRead(call) == {Today(call.clock[i]) : i \in DOMAIN call.clock}

\* C14: every date bound used by one unreconciled, stale_meals or suggestion
\* computation is derived from one and the same day today, also when the
\* clock passes midnight during the call.
C14_OneToday ==
    /\ last.op = "get_unreconciled" =>
          \E today \in DaysRead(last) :
              last.bounds = [cutoff |-> today - last.args[1], today |-> today]
    /\ last.op = "get_stale_meals" =>
          \E today \in DaysRead(last) :
              last.bounds = [window_start |-> today - last.args[1],
                             stale_cutoff |-> today - last.args[2]]
    /\ last.op = "get_meal_suggestions" =>
          \E today \in DaysRead(last) :
              last.bounds = [tag_cutoff   |-> today - last.args[1],
                             window_start |-> today - last.args[1],
                             stale_cutoff |-> today - 30,
                             start_date   |-> today - last.args[1]]

\* The same, for the calls during which the day did not change.
C14_OneTodayWithinOneDay ==
    (last.op \in {"get_unreconciled", "get_stale_meals", "get_meal_suggestions"}
        /\ Cardinality(DaysRead(last)) = 1) => C14_OneToday

====
